---- MODULE Spec2Model ----
(***************************************************************************)
(* Model of the process-snapshot tool: the decorators of                   *)
(* system_snapshot/decorators.py (suppress_errors, log_processes,          *)
(* filter_by_current_user, sort_processes, max_listing) and the entry      *)
(* point of system_snapshot/snapshot.py (get_processes_info, main).        *)
(*                                                                         *)
(* Python values are tagged records of one shape, so that values of        *)
(* different Python types can be told apart and compared the way Python    *)
(* compares them (a comparison across types raises TypeError).  Strings    *)
(* are sequences of character codes, floats are scaled integers, a list    *)
(* object lives in the heap and is named by its index there.               *)
(***************************************************************************)
EXTENDS Integers, Sequences, FiniteSets, TLC

\* ------------------------------------------------------------------ bounds
MaxLen == 4        \* longest list the wrapped function returns
MaxCount == 5      \* largest max_count given to max_listing
MaxProcs == 3      \* most processes the operating system reports

\* ------------------------------------------------------- Python values
Num(n) == [t |-> "num", n |-> n, s |-> <<>>, l |-> <<>>]
Str(s) == [t |-> "str", n |-> 0, s |-> s, l |-> <<>>]
List(l) == [t |-> "list", n |-> 0, s |-> <<>>, l |-> l]
None == [t |-> "none", n |-> 0, s |-> <<>>, l |-> <<>>]
Absent == [t |-> "absent", n |-> 0, s |-> <<>>, l |-> <<>>]

\* character codes: the space sorts before the letters, as in ASCII
SP == 0
CA == 1
CB == 2

Min(a, b) == IF a < b THEN a ELSE b

\* str.__lt__: lexicographic order on the character codes
StrLess(x, y) ==
    \/ /\ Len(x) < Len(y)
       /\ \A i \in 1..Len(x) : x[i] = y[i]
    \/ \E i \in 1..Min(Len(x), Len(y)) :
          /\ x[i] < y[i]
          /\ \A j \in 1..(i - 1) : x[j] = y[j]

\* list.__lt__ on lists of strings: lexicographic order on the elements
ListLess(x, y) ==
    \/ /\ Len(x) < Len(y)
       /\ \A i \in 1..Len(x) : x[i] = y[i]
    \/ \E i \in 1..Min(Len(x), Len(y)) :
          /\ StrLess(x[i], y[i])
          /\ \A j \in 1..(i - 1) : x[j] = y[j]

\* a < b is defined (raises no TypeError): both numbers, both strings or
\* both lists; None < None raises like any comparison with None
Comparable(a, b) == a.t = b.t /\ a.t \in {"num", "str", "list"}

\* a < b for comparable a and b
PyLess(a, b) ==
    CASE a.t = "num" -> a.n < b.n
      [] a.t = "str" -> StrLess(a.s, b.s)
      [] OTHER -> ListLess(a.l, b.l)

\* " ".join(l)
RECURSIVE Join(_)
Join(l) ==
    IF Len(l) = 0 THEN <<>>
    ELSE IF Len(l) = 1 THEN l[1]
    ELSE l[1] \o <<SP>> \o Join(Tail(l))

\* ------------------------------------------------------ process records
Fields == {"pid", "name", "username", "cpu_percent", "cmdline"}

CurrentUser == Str(<<CA>>)     \* getpass.getuser()
OtherUser == Str(<<CB>>)

Proc(pid, name, user, cpu, cmd) ==
    [pid |-> Num(pid), name |-> name, username |-> user,
     cpu_percent |-> Num(cpu), cmdline |-> List(cmd)]

\* the process dictionaries the model draws from; one of them has no "name"
\* key, one has username None, two command lines join to the same string
ProcUniverse ==
    { Proc(1, Str(<<CA>>), CurrentUser, 1, << <<CA, SP, CA>> >>),
      Proc(2, Str(<<CB>>), OtherUser, 2, << <<CA>>, <<CB>> >>),
      Proc(3, Str(<<CA>>), CurrentUser, 2, << <<CA>>, <<CA>> >>),
      Proc(4, Absent, None, 1, <<>>),
      Proc(5, Str(<<CB>>), CurrentUser, 3, << <<CB>> >>),
      Proc(6, Str(<<CA, CB>>), OtherUser, 3, << <<CA, SP, CA>>, <<CA>> >>) }

\* lists of distinct records of length at most n
SeqsUpTo(S, n) ==
    UNION { { q \in [1..k -> S] : \A i, j \in 1..k : i # j => q[i] # q[j] }
            : k \in 0..n }

\* proc.get(field, 0)
Get(proc, field) == IF proc[field].t = "absent" THEN Num(0) ELSE proc[field]

\* ---------------------------------------------------------- list.sort
\* a key function that forgets to join a list-valued field
item_getter_nojoin(proc, field) == Get(proc, field)

\* The key function of sort_processes: the field's value, 0 when the record
\* has no such key, a list joined into one string.
item_getter(proc, field) ==
    LET sort_field == Get(proc, field)
    IN IF sort_field.t = "list" THEN Str(Join(sort_field.l)) ELSE sort_field

Reverse(q) == [i \in 1..Len(q) |-> q[Len(q) + 1 - i]]

\* q with its first n elements reversed
ReverseSlice(q, n) == [i \in 1..Len(q) |-> IF i <= n THEN q[n + 1 - i] ELSE q[i]]

\* q with the element at index from moved down to index to
InsertAt(q, from, to) ==
    [i \in 1..Len(q) |->
        IF i < to \/ i > from THEN q[i]
        ELSE IF i = to THEN q[from] ELSE q[i - 1]]

\* count_run's loop: the last index of the run that q[1..i-1] begins,
\* 0 when a comparison raises TypeError
RECURSIVE RunLength(_, _, _)
RunLength(q, i, desc) ==
    IF i > Len(q) THEN i - 1
    ELSE IF ~Comparable(q[i].k, q[i - 1].k) THEN 0
    ELSE IF PyLess(q[i].k, q[i - 1].k) = desc THEN RunLength(q, i + 1, desc)
    ELSE i - 1

\* count_run on a list of at least two elements: the length of the leading
\* run and whether it is strictly descending
count_run(q) ==
    IF ~Comparable(q[2].k, q[1].k) THEN [ok |-> FALSE, n |-> 0, desc |-> FALSE]
    ELSE LET desc == PyLess(q[2].k, q[1].k)
             n == RunLength(q, 3, desc)
         IN [ok |-> n # 0, n |-> n, desc |-> desc]

\* binarysort's search for the place of pivot in the sorted q[l..r-1]:
\* the index, or 0 when a comparison raises TypeError
RECURSIVE BinarySearch(_, _, _, _)
BinarySearch(q, pivot, l, r) ==
    LET p == l + ((r - l) \div 2)
    IN IF ~Comparable(pivot.k, q[p].k) THEN 0
       ELSE LET less == PyLess(pivot.k, q[p].k)
                l2 == IF less THEN l ELSE p + 1
                r2 == IF less THEN p ELSE r
            IN IF l2 < r2 THEN BinarySearch(q, pivot, l2, r2) ELSE l2

\* binarysort: q[1..start-1] is sorted; insert q[start], q[start+1], ...
\* one by one.  A failing comparison leaves the elements inserted so far
\* where they are.
RECURSIVE binarysort(_, _)
binarysort(q, start) ==
    IF start > Len(q) THEN [ok |-> TRUE, q |-> q]
    ELSE LET pos == BinarySearch(q, q[start], 1, start)
         IN IF pos = 0 THEN [ok |-> FALSE, q |-> q]
            ELSE binarysort(InsertAt(q, start, pos), start + 1)

\* list.sort(key=item_getter, reverse=reverse) on a list shorter than 64
\* elements (one run, extended by binary insertion): ok is FALSE when a
\* comparison raised TypeError, items is the list's content afterwards.
list_sort(items, field, reverse) ==
    LET keyed == [i \in 1..Len(items) |->
                    [k |-> item_getter(items[i], field), v |-> items[i]]]
        q0 == IF reverse THEN Reverse(keyed) ELSE keyed
        run == count_run(q0)
        q1 == IF run.desc THEN ReverseSlice(q0, run.n) ELSE q0
        sorted == IF Len(items) < 2 THEN [ok |-> TRUE, q |-> q0]
                  ELSE IF ~run.ok THEN [ok |-> FALSE, q |-> q0]
                  ELSE binarysort(q1, run.n + 1)
        qf == IF reverse THEN Reverse(sorted.q) ELSE sorted.q
    IN [ok |-> sorted.ok, items |-> [i \in 1..Len(items) |-> qf[i].v]]

\* ------------------------------------------------------ exception kinds
Kinds ==
    {"PermissionError", "AccessDenied", "NoSuchProcess", "ZombieProcess",
     "ValueError", "TypeError", "AttributeError", "OSError",
     "UnsupportedOperation"}

\* the classes a kind inherits from, among Kinds
Ancestors(k) ==
    CASE k = "ZombieProcess" -> {"NoSuchProcess"}
      [] k = "PermissionError" -> {"OSError"}
      [] k = "UnsupportedOperation" -> {"OSError", "ValueError"}
      [] OTHER -> {}

\* an exception of kind e is matched by "except K": e is a kind of K or
\* inherits from one
IsInstance(e, K) == \E k \in K : k = e \/ k \in Ancestors(e)

DEFAULT_SUPPRESS == {"PermissionError", "AccessDenied", "NoSuchProcess"}

\* the arguments suppress_errors is given in the repository; {} is the
\* call without arguments
SuppressArgs ==
    { {},
      {"ValueError", "TypeError"},
      {"ValueError"},
      {"ZombieProcess", "PermissionError", "AccessDenied", "NoSuchProcess"},
      {"OSError"} }

\* suppress_errors(*exception_types): the kinds the wrapper catches
exception_types(given) == IF given = {} THEN DEFAULT_SUPPRESS ELSE given

\* ---------------------------------------------------------------- state
VARIABLES
    input,     \* the list the wrapped function returns when it returns
    table,     \* the operating system's processes, for get_processes_info
    heap,      \* the list objects created so far; a reference is an index
    file,      \* the log file: whether it exists and its lines
    stdout,    \* the diagnostics printed
    pc,        \* "start" before the call, "done" after it
    op,        \* the function that was called
    arg,       \* the decorator's configuration and what the wrapped function did
    result     \* how the call ended: a returned reference or a raised kind

vars == <<input, table, heap, file, stdout, pc, op, arg, result>>

NoArg == [K |-> {}, exc |-> "none", field |-> "", reverse |-> FALSE, max_count |-> 0]

Pending == [kind |-> "pending", ref |-> 0, exc |-> "none"]
Return(ref) == [kind |-> "return", ref |-> ref, exc |-> "none"]
Raise(e) == [kind |-> "raise", ref |-> 0, exc |-> e]

Line(kind, n, proc) == [kind |-> kind, n |-> n, pid |-> proc.pid, name |-> proc.name]
StaleLine == [kind |-> "stale", n |-> 0, pid |-> None, name |-> None]

NoFile == [exists |-> FALSE, content |-> <<>>]
FileStates == {NoFile, [exists |-> TRUE, content |-> <<StaleLine>>]}

Init ==
    /\ input \in SeqsUpTo(ProcUniverse, MaxLen)
    /\ table = <<>>
    /\ heap = <<>>
    /\ file \in FileStates
    /\ stdout = <<>>
    /\ pc = "start"
    /\ op = "none"
    /\ arg = NoArg
    /\ result = Pending

\* what the wrapped function may do: return input, or raise
FuncOutcomes == Kinds \cup {"none"}

\* --------------------------------------------------------- suppress_errors
\* a wrapper whose except clause catches every exception
suppress_errors_result_bare(K, raised, value) ==
    IF raised = "none" THEN [res |-> Return(1), heap |-> <<value>>, out |-> <<>>]
    ELSE [res |-> Return(1), heap |-> << <<>> >>, out |-> <<"Suppressed Error">>]

\* suppress_errors_wrapper: the wrapped function's result, or a new empty
\* list when it raises a kind the except clause matches
suppress_errors_result(K, raised, value) ==
    IF raised = "none" THEN [res |-> Return(1), heap |-> <<value>>, out |-> <<>>]
    ELSE IF IsInstance(raised, K)
    THEN [res |-> Return(1), heap |-> << <<>> >>, out |-> <<"Suppressed Error">>]
    ELSE [res |-> Raise(raised), heap |-> <<>>, out |-> <<>>]

suppress_errors_wrapper ==
    /\ pc = "start"
    /\ \E given \in SuppressArgs, raised \in FuncOutcomes :
          LET r == suppress_errors_result(exception_types(given), raised, input)
          IN /\ arg' = [NoArg EXCEPT !.K = given, !.exc = raised]
             /\ result' = r.res
             /\ heap' = r.heap
             /\ stdout' = stdout \o r.out
    /\ op' = "suppress_errors"
    /\ pc' = "done"
    /\ UNCHANGED <<input, table, file>>

\* ----------------------------------------------------------- log_processes
\* log_processes' wrapper: open(filename, 'w') creates or truncates the file,
\* f.read() on the write-only handle raises io.UnsupportedOperation, which
\* leaves the with block and the wrapper; the wrapped function is not called
\* and nothing is written.
log_processes_wrapper ==
    /\ pc = "start"
    /\ file' = [exists |-> TRUE, content |-> <<>>]
    /\ result' = Raise("UnsupportedOperation")
    /\ op' = "log_processes"
    /\ pc' = "done"
    /\ arg' = NoArg
    /\ UNCHANGED <<input, table, heap, stdout>>

\* --------------------------------------------------- filter_by_current_user
\* filter_by_current_user(func) is unfinished: its body defines no working
\* wrapper and ends in pass, so it returns None and the decorated name is
\* None.  Calling that name raises TypeError ('NoneType' object is not
\* callable); the wrapped function is never called.
filter_by_current_user_call ==
    /\ pc = "start"
    /\ result' = Raise("TypeError")
    /\ op' = "filter_by_current_user"
    /\ pc' = "done"
    /\ arg' = NoArg
    /\ UNCHANGED <<input, table, heap, file, stdout>>

\* ----------------------------------------------------------- sort_processes
SortFields == Fields

\* a sort stage that leaves the wrapped function's list alone and returns a
\* sorted copy (sorted(processes, ...) in place of processes.sort(...))
sort_processes_result_copy(processes, field, reverse) ==
    LET sorted == list_sort(processes, field, reverse)
    IN [res |-> Return(2),
        heap |-> <<processes, sorted.items>>,
        out |-> <<IF sorted.ok THEN "Sorting" ELSE "Sorting Error">>]

\* The body of sort_processes_wrapper once the wrapped function returned the
\* list object 1: processes.sort(...) reorders that object, a TypeError of
\* the sort is caught and printed, and the same object is returned.
sort_processes_result(processes, field, reverse) ==
    LET sorted == list_sort(processes, field, reverse)
    IN [res |-> Return(1),
        heap |-> <<sorted.items>>,
        out |-> <<IF sorted.ok THEN "Sorting" ELSE "Sorting Error">>]

\* sort_processes_wrapper: an exception of the wrapped function propagates
sort_processes_wrapper ==
    /\ pc = "start"
    /\ \E field \in SortFields, reverse \in BOOLEAN, raised \in FuncOutcomes :
          /\ arg' = [NoArg EXCEPT !.field = field, !.reverse = reverse, !.exc = raised]
          /\ IF raised # "none"
             THEN /\ result' = Raise(raised)
                  /\ UNCHANGED <<heap, stdout>>
             ELSE LET r == sort_processes_result(input, field, reverse)
                  IN /\ heap' = r.heap
                     /\ stdout' = stdout \o r.out
                     /\ result' = r.res
    /\ op' = "sort_processes"
    /\ pc' = "done"
    /\ UNCHANGED <<input, table, file>>

\* -------------------------------------------------------------- max_listing
\* a slice that keeps one element too many (processes[:max_count + 1])
SlicePrefix_offbyone(q, n) == SubSeq(q, 1, Min(n + 1, Len(q)))

\* processes[:max_count]
SlicePrefix(q, n) ==
    IF n >= 0 THEN SubSeq(q, 1, Min(n, Len(q)))
    ELSE SubSeq(q, 1, Len(q) + n)

\* max_listing_wrapper: a new list holding the first max_count elements
max_listing_wrapper ==
    /\ pc = "start"
    /\ \E max_count \in 0..MaxCount, raised \in FuncOutcomes :
          /\ arg' = [NoArg EXCEPT !.max_count = max_count, !.exc = raised]
          /\ IF raised # "none"
             THEN /\ result' = Raise(raised)
                  /\ UNCHANGED <<heap, stdout>>
             ELSE /\ heap' = <<input, SlicePrefix(input, max_count)>>
                  /\ stdout' = stdout \o
                        <<IF Len(input) > max_count
                          THEN "Max Listing limited" ELSE "Max Listing all">>
                  /\ result' = Return(2)
    /\ op' = "max_listing"
    /\ pc' = "done"
    /\ UNCHANGED <<input, table, file>>

Next ==
    \/ suppress_errors_wrapper
    \/ log_processes_wrapper
    \/ filter_by_current_user_call
    \/ sort_processes_wrapper
    \/ max_listing_wrapper

Spec == Init /\ [][Next]_vars

\* ------------------------------------------------------------- snapshot.py
\* psutil.cpu_count(logical=False) of the modelled machine
cpu_count == 2

\* What reading one process does in the loop body of one pass: nothing
\* (pass 0), or raise exc in pass 1 (process.cpu_percent()) or in pass 2
\* (as_dict and the two statements after it; a value as_dict could not read
\* is None there, and dividing it raises TypeError).
Ok == [pass |-> 0, exc |-> "none"]
Faults ==
    { Ok,
      [pass |-> 1, exc |-> "NoSuchProcess"],
      [pass |-> 1, exc |-> "AccessDenied"],
      [pass |-> 2, exc |-> "NoSuchProcess"],
      [pass |-> 2, exc |-> "TypeError"] }

\* the readings psutil gives for a process: cpu_percent is per core
Raw(proc) == [proc EXCEPT !.cpu_percent = Num(proc.cpu_percent.n * cpu_count)]

\* the tables of at most n distinct processes, each with its fault
Tables(n) ==
    UNION { { [i \in 1..Len(q) |-> [proc |-> Raw(q[i]), fault |-> f[i]]]
              : f \in [1..Len(q) -> Faults] }
            : q \in SeqsUpTo(ProcUniverse, n) }

\* the index of the first process of tbl whose read raises in pass p, 0 if none
FirstFault(tbl, p) ==
    IF \E i \in 1..Len(tbl) : tbl[i].fault.pass = p
    THEN CHOOSE i \in 1..Len(tbl) :
            /\ tbl[i].fault.pass = p
            /\ \A j \in 1..(i - 1) : tbl[j].fault.pass # p
    ELSE 0

\* the dictionary the second loop appends: cpu_percent divided by cpu_count
process_info(entry) ==
    [entry.proc EXCEPT !.cpu_percent = Num(entry.proc.cpu_percent.n \div cpu_count)]

\* The undecorated get_processes_info: two loops over all processes with no
\* handler inside either, so that the first read that raises ends the
\* function with that exception and the list built so far is lost.
get_processes_info_body(tbl) ==
    LET f1 == FirstFault(tbl, 1)
        f2 == FirstFault(tbl, 2)
    IN IF f1 # 0 THEN [exc |-> tbl[f1].fault.exc, value |-> <<>>]
       ELSE IF f2 # 0 THEN [exc |-> tbl[f2].fault.exc, value |-> <<>>]
       ELSE [exc |-> "none",
             value |-> [i \in 1..Len(tbl) |-> process_info(tbl[i])]]

\* the kinds snapshot.py gives suppress_errors
SnapshotSuppress == {"ZombieProcess", "PermissionError", "AccessDenied", "NoSuchProcess"}

\* get_processes_info as decorated in snapshot.py: suppress_errors is the
\* only decorator applied to it
get_processes_info(tbl) ==
    LET body == get_processes_info_body(tbl)
    IN suppress_errors_result(SnapshotSuppress, body.exc, body.value)

\* a call of the decorated get_processes_info
get_processes_info_call ==
    /\ pc = "start"
    /\ LET r == get_processes_info(table)
       IN /\ result' = r.res
          /\ heap' = r.heap
          /\ stdout' = stdout \o r.out
    /\ op' = "get_processes_info"
    /\ pc' = "done"
    /\ arg' = [NoArg EXCEPT !.K = SnapshotSuppress]
    /\ UNCHANGED <<input, table, file>>

\* print_process_info: one block per process, or the "No processes" line
print_process_info(processes) ==
    IF Len(processes) = 0 THEN <<"No processes">>
    ELSE <<"PROCESSES">> \o [i \in 1..Len(processes) |-> "[Process]"]

\* main: the banner, the snapshot, the report and the two closing lines; an
\* exception of get_processes_info ends it before the report
main ==
    /\ pc = "start"
    /\ LET r == get_processes_info(table)
       IN /\ result' = r.res
          /\ heap' = r.heap
          /\ stdout' = stdout \o <<"System Resource Process Snapshot">> \o r.out \o
                (IF r.res.kind = "return"
                 THEN print_process_info(r.heap[r.res.ref]) \o
                      <<"Total processes found",
                        "Process information logged to process_snapshot.log">>
                 ELSE <<>>)
    /\ op' = "main"
    /\ pc' = "done"
    /\ arg' = [NoArg EXCEPT !.K = SnapshotSuppress]
    /\ UNCHANGED <<input, table, file>>

InitSnapshot ==
    /\ input = <<>>
    /\ table \in Tables(MaxProcs)
    /\ heap = <<>>
    /\ file \in FileStates
    /\ stdout = <<>>
    /\ pc = "start"
    /\ op = "none"
    /\ arg = NoArg
    /\ result = Pending

NextSnapshot ==
    \/ get_processes_info_call
    \/ main

SpecSnapshot == InitSnapshot /\ [][NextSnapshot]_vars

\* =================================================================== claims
Returned == result.kind = "return" /\ result.ref \in 1..Len(heap)

\* the list the call returned
Out == heap[result.ref]

Elems(q) == {q[i] : i \in 1..Len(q)}

\* the index of record p in q
Pos(q, p) == CHOOSE i \in 1..Len(q) : q[i] = p

\* a raised kind e belongs to the kinds K: it is one of them or a subclass
InKinds(e, K) == e \in K \/ Ancestors(e) \cap K # {}

\* the kinds a suppress_errors call is configured with
Configured == IF arg.K = {} THEN DEFAULT_SUPPRESS ELSE arg.K

\* C1: a function wrapped by suppress_errors(K) returns an empty list when
\* the wrapped function raises a kind of K, lets any other kind propagate
\* unchanged, and returns the wrapped function's result when nothing is
\* raised.
C1_SuppressContract ==
    op = "suppress_errors" =>
        /\ (arg.exc # "none" /\ InKinds(arg.exc, Configured))
              => (Returned /\ Out = <<>>)
        /\ (arg.exc # "none" /\ ~InKinds(arg.exc, Configured))
              => result = Raise(arg.exc)
        /\ arg.exc = "none" => (Returned /\ Out = input)

C1_Witness ==
    /\ op = "suppress_errors"
    /\ arg.K = {}
    /\ arg.exc = "NoSuchProcess"
    /\ Len(input) = 2
    /\ Returned
    /\ Out = <<>>

\* the records of q owned by the current user, in q's order
OwnedByCurrentUser(q) == SelectSeq(q, LAMBDA p : p.username = CurrentUser)

\* C2: a function wrapped with filter_by_current_user returns exactly the
\* records whose username is the current user, in their original order.
C2_FilterContract ==
    op = "filter_by_current_user" =>
        (Returned /\ Out = OwnedByCurrentUser(input))

\* the sort key the specification describes: the field, 0 when absent, a
\* list as its elements joined by spaces
KeyOf(p, field) ==
    LET v == p[field]
    IN IF v.t = "absent" THEN Num(0)
       ELSE IF v.t = "list" THEN Str(Join(v.l))
       ELSE v

\* every two keys of the list can be compared
MutuallyComparable(q, field) ==
    \A i, j \in 1..Len(q) : i # j => Comparable(KeyOf(q[i], field), KeyOf(q[j], field))

KeyLess(p, q, field) == PyLess(KeyOf(p, field), KeyOf(q, field))

Sorted(q, field, reverse) ==
    \A i, j \in 1..Len(q) : i < j =>
        IF reverse THEN ~KeyLess(q[i], q[j], field) ELSE ~KeyLess(q[j], q[i], field)

Stable(q, orig, field) ==
    \A i, j \in 1..Len(q) :
        (i < j /\ ~KeyLess(q[i], q[j], field) /\ ~KeyLess(q[j], q[i], field))
            => Pos(orig, q[i]) < Pos(orig, q[j])

Permutation(q, orig) == Len(q) = Len(orig) /\ Elems(q) = Elems(orig)

SortCall == op = "sort_processes" /\ arg.exc = "none"

\* C3: for both directions the output of sort_processes holds the input's
\* records ordered by the field's key (non-increasing when reverse, else
\* non-decreasing), equal keys keep their original relative order, and a
\* list-valued field is compared as its elements joined into one string.
C3_SortedStable ==
    (SortCall /\ MutuallyComparable(input, arg.field)) =>
        /\ Returned
        /\ Permutation(Out, input)
        /\ Sorted(Out, arg.field, arg.reverse)
        /\ Stable(Out, input, arg.field)

\* a descending sort by command line of four records, two of which join to
\* the same string, that reordered the list
C3_Witness ==
    /\ SortCall
    /\ arg.field = "cmdline"
    /\ arg.reverse
    /\ Len(input) = 4
    /\ \E i, j \in 1..4 :
          /\ i < j
          /\ input[i].cmdline # input[j].cmdline
          /\ KeyOf(input[i], "cmdline") = KeyOf(input[j], "cmdline")
    /\ Returned
    /\ Out # input
    /\ Sorted(Out, "cmdline", TRUE)

CapCall == op = "max_listing" /\ arg.exc = "none"

\* C4: the output of max_listing(N) has length min(N, S) and is the first
\* min(N, S) elements of the input in order; with S <= N it is the input.
C4_CapPrefix ==
    CapCall =>
        /\ Returned
        /\ Len(Out) = Min(arg.max_count, Len(input))
        /\ \A i \in 1..Len(Out) : Out[i] = input[i]
        /\ Len(input) <= arg.max_count => Out = input

C4_Witness ==
    /\ CapCall
    /\ Len(input) = 4
    /\ arg.max_count = 2
    /\ Returned
    /\ Out = <<input[1], input[2]>>

\* C5: a function wrapped with log_processes returns to its caller the
\* sequence the wrapped function produced.
C5_LogPassThrough ==
    op = "log_processes" => (Returned /\ Out = input)

\* C6: after a call of a function wrapped with log_processes the file exists
\* and holds the number of records returned and every record's pid and name.
C6_LogContent ==
    op = "log_processes" =>
        /\ file.exists
        /\ \E k \in 1..Len(file.content) :
              file.content[k].kind = "count" /\ file.content[k].n = Len(input)
        /\ \A i \in 1..Len(input) :
              \E k \in 1..Len(file.content) :
                  /\ file.content[k].pid = input[i].pid
                  /\ file.content[k].name = input[i].name

\* C9: when the sort keys are not mutually comparable sort_processes raises
\* nothing and returns the records in the order the wrapped function
\* produced them.
C9_FailedSortKeepsOrder ==
    (SortCall /\ ~MutuallyComparable(input, arg.field)) =>
        (Returned /\ Out = input)

\* C10 as stated: after sort_processes the wrapped function's list object
\* still has its original order and the result is a new sequence.
C10_SortDoesNotMutate ==
    SortCall => (Returned /\ heap[1] = input /\ result.ref # 1)

\* C10 amended: sort_processes sorts the wrapped function's list object in
\* place and returns that same object; no new sequence is created, and the
\* object holds the same records as before, reordered.
C10_SortInPlace ==
    SortCall =>
        /\ Returned
        /\ result.ref = 1
        /\ Len(heap) = 1
        /\ Permutation(heap[1], input)

C10_Witness ==
    /\ SortCall
    /\ arg.field = "cpu_percent"
    /\ arg.reverse
    /\ Returned
    /\ result.ref = 1
    /\ heap[1] # input
    /\ Sorted(heap[1], "cpu_percent", TRUE)

\* ------------------------------------------------- claims on snapshot.py
Healthy(tbl) == \A i \in 1..Len(tbl) : tbl[i].fault = Ok

\* the records a fault-free run reads
Readings(tbl) == [i \in 1..Len(tbl) |-> process_info(tbl[i])]

\* the log has a row for record p
Logged(p) ==
    \E k \in 1..Len(file.content) :
        /\ file.content[k].kind = "row"
        /\ file.content[k].pid = p.pid
        /\ file.content[k].name = p.name

\* C7: the full pipeline with field=cpu_percent, descending, maxCount=2 on a
\* snapshot with records of several users and at least two of the current
\* user yields exactly the current user's two highest-CPU records in
\* descending CPU order, and the log has an entry for each of them and for
\* no other record.
C7_PipelineOrder ==
    (/\ op = "main"
     /\ Healthy(table)
     /\ Len(OwnedByCurrentUser(Readings(table))) >= 2
     /\ \E i \in 1..Len(table) : table[i].proc.username # CurrentUser) =>
        /\ Returned
        /\ Len(Out) = 2
        /\ \A i \in 1..Len(Out) : Out[i].username = CurrentUser
        /\ Elems(Out) \subseteq Elems(Readings(table))
        /\ Sorted(Out, "cpu_percent", TRUE)
        /\ \A p \in Elems(OwnedByCurrentUser(Readings(table))) \ Elems(Out) :
              \A o \in Elems(Out) : ~KeyLess(o, p, "cpu_percent")
        /\ \A p \in Elems(Readings(table)) : Logged(p) <=> p \in Elems(Out)

\* the read of a process raises a recoverable error
Recoverable(fault) == fault.pass # 0 /\ InKinds(fault.exc, SnapshotSuppress)

\* C8: if reading one process raises a recoverable error during either pass,
\* the enumeration is not aborted and the records of all readable processes
\* are still returned.
C8_PerProcessTolerance ==
    (/\ op = "get_processes_info"
     /\ \E i \in 1..Len(table) : Recoverable(table[i].fault)
     /\ \A i \in 1..Len(table) : table[i].fault = Ok \/ Recoverable(table[i].fault)) =>
        /\ Returned
        /\ \A i \in 1..Len(table) :
              table[i].fault = Ok => process_info(table[i]) \in Elems(Out)

====
